---------------------------- MODULE Spec2Model ----------------------------
(***************************************************************************)
(* file-deduplicator (src/main.rs): the tree walk, the content            *)
(* fingerprint, the parallel fold/reduce aggregation and main's report    *)
(* and interactive deletion loop.                                         *)
(*                                                                         *)
(* File contents are byte strings kept run-length encoded: a sequence of  *)
(* runs [b |-> byte, n |-> count], normalised (no empty run, no two       *)
(* adjacent runs of one byte), so that two contents are equal exactly     *)
(* when their encodings are.  This lets the model keep the program's own  *)
(* sizes (1024, 16384, 65536, 1048576).                                    *)
(***************************************************************************)
EXTENDS Integers, Sequences, FiniteSets, Bags, TLC

VARIABLES
    \* ---- hash_file applied to a pair of files (HashSpec) ----
    fileA, fileB,       \* the two files: [meta, open, read, data]
    resA, resB,         \* hash_file's result for each, NotRun before the call
    \* ---- the scan pipeline (Spec) ----
    tree,               \* the directory tree under dir: entry -> [parent, kind, data]
    disk,               \* the entries that exist on disk
    interactive,        \* cli flag
    pc,                 \* where main is: walk, hash, collect, report, exit
    stack,              \* scan_directory: stack of directories
    cur,                \* the directory whose read_dir iterator is open, NoDir if none
    rest,               \* entries that iterator has not yielded yet
    paths,              \* scan_directory: paths
    pblen, pbpos,       \* the progress bar's length and position
    todo,               \* indices of paths no task has taken yet
    hashOf,             \* index of paths -> hash_file's result there
    partials,           \* the partial HashMaps of fold and reduce, a bag
    duplicates,         \* scan_directory's returned HashMap
    duplicate_sets,     \* main: duplicate_sets
    reported,           \* groups the report loop has printed
    selected,           \* paths the operator selected so far
    nodup,              \* "No duplicates found." was printed
    exit                \* running, ok (main returned Ok), err (main returned Err)

hvars == <<fileA, fileB, resA, resB>>
pvars == <<tree, disk, interactive, pc, stack, cur, rest, paths, pblen, pbpos,
           todo, hashOf, partials, duplicates, duplicate_sets, reported,
           selected, nodup, exit>>
vars == <<hvars, pvars>>

Min(a, b) == IF a < b THEN a ELSE b

-----------------------------------------------------------------------------
(* Program constants *)

SAMPLE_SIZE == 65536
LARGE_FILE_THRESHOLD == 1048576
SMALL_BUFFER == 16384
MIN_SIZE == 1024
U64_BYTES == 8

-----------------------------------------------------------------------------
(* Byte strings, run-length encoded *)

RECURSIVE Norm(_)
Norm(s) ==
    IF Len(s) = 0 THEN <<>>
    ELSE IF s[1].n = 0 THEN Norm(Tail(s))
    ELSE LET r == Norm(Tail(s)) IN
         IF Len(r) > 0 /\ r[1].b = s[1].b
         THEN <<[b |-> s[1].b, n |-> s[1].n + r[1].n]>> \o Tail(r)
         ELSE <<s[1]>> \o r

RECURSIVE Size(_)
Size(s) == IF Len(s) = 0 THEN 0 ELSE s[1].n + Size(Tail(s))

\* the first k bytes of s (all of s when it is shorter)
RECURSIVE Take(_, _)
Take(s, k) ==
    IF k <= 0 \/ Len(s) = 0 THEN <<>>
    ELSE IF s[1].n >= k THEN <<[b |-> s[1].b, n |-> k]>>
    ELSE <<s[1]>> \o Take(Tail(s), k - s[1].n)

\* s without its first k bytes
RECURSIVE Drop(_, _)
Drop(s, k) ==
    IF k <= 0 \/ Len(s) = 0 THEN s
    ELSE IF s[1].n > k THEN <<[b |-> s[1].b, n |-> s[1].n - k]>> \o Tail(s)
    ELSE Drop(Tail(s), k - s[1].n)

Slice(s, off, len) == Take(Drop(s, off), len)

\* the byte at offset off (0-based) of s
ByteAt(s, off) == Slice(s, off, 1)[1].b

-----------------------------------------------------------------------------
(* hash_file *)

\* The file a hash_file call meets.  seen is the length fs::metadata reports,
\* data the bytes the reads then find (shorter when the file was truncated in
\* between), io the call that fails, if any.
IoModes == {"ok", "meta_err", "open_err", "read_err", "cut_short", "cut_sample"}

\* the bytes left of a file truncated after its metadata was read
CutData(io, data) ==
    IF io = "cut_short" THEN Take(data, SAMPLE_SIZE - 1)
    ELSE IF io = "cut_sample" THEN Take(data, SAMPLE_SIZE)
    ELSE data

FileView(data, io) == [io |-> io, seen |-> Size(data), data |-> CutData(io, data)]

\* Xxh3::new and update: the hasher's state is the bytes fed so far (xxh3's
\* streaming digest depends on their concatenation only)
NewHasher == <<>>
Update(h, bytes) == Norm(h \o bytes)

\* u64::to_le_bytes
RECURSIVE ToLeBytes(_, _)
ToLeBytes(v, k) ==
    IF k = 0 THEN <<>>
    ELSE <<[b |-> v % 256, n |-> 1]>> \o ToLeBytes(v \div 256, k - 1)

\* hasher.digest().to_le_bytes().to_vec(): the 64-bit xxh3 value is not
\* computed; the fingerprint stands for it as a tagged value, one per byte
\* stream (no collisions).
Digest(h) == <<"xxh3", h>>

HashOk(h) == [ok |-> TRUE, hash |-> Digest(h)]
HashErr == [ok |-> FALSE, hash |-> <<>>]

\* a failed read or seek: the ? returns the error
IoFailed == [ok |-> FALSE, h |-> <<>>]

\* the one element of a singleton set
Only(S) == CHOOSE x \in S : TRUE

\* one pass of the loop of lines 81-87: read up to 16384 bytes at pos and feed
\* them to the hasher
ReadOnce(h, data, pos) ==
    LET bytes_read == Min(SMALL_BUFFER, Size(data) - pos) IN
    IF bytes_read <= 0 THEN h ELSE Update(h, Slice(data, pos, bytes_read))

\* the passes the loop makes before a read returns 0
Passes(data) == (Size(data) + SMALL_BUFFER - 1) \div SMALL_BUFFER

\* count consecutive passes of the loop from pos, in the loop's order.  The
\* passes are evaluated half by half, the first half's hasher bound as a value
\* before the second half starts, which only keeps the evaluation shallow.
RECURSIVE ReadLoop(_, _, _, _)
ReadLoop(h, data, pos, count) ==
    IF count = 0 THEN h
    ELSE IF count = 1 THEN ReadOnce(h, data, pos)
    ELSE LET half == count \div 2 IN
         Only({ReadLoop(h2, data, pos + half * SMALL_BUFFER, count - half) :
                   h2 \in {ReadLoop(h, data, pos, half)}})

SmallBranch(f) ==
    IF f.io = "read_err" THEN IoFailed
    ELSE [ok |-> TRUE, h |-> ReadLoop(NewHasher, f.data, 0, Passes(f.data))]

\* SeekFrom::End(-(SAMPLE_SIZE as i64).min(size as i64)): the offset from the end
SeekOffset(size) == 0 - Min(SAMPLE_SIZE, size)

\* read_exact of len bytes at pos: fails when fewer are left
ReadExactOk(data, pos, len) == pos + len <= Size(data)

LargeBranch(f) ==
    LET size == f.seen
        tailpos == Size(f.data) + SeekOffset(size)
    IN
    IF f.io = "read_err" \/ ~ReadExactOk(f.data, 0, SAMPLE_SIZE) THEN IoFailed
    ELSE LET h1 == Update(NewHasher, Slice(f.data, 0, SAMPLE_SIZE)) IN
         IF tailpos < 0 \/ ~ReadExactOk(f.data, tailpos, SAMPLE_SIZE) THEN IoFailed
         ELSE LET h2 == Update(h1, Slice(f.data, tailpos, SAMPLE_SIZE))
                  h3 == Update(h2, ToLeBytes(size, U64_BYTES))
              IN [ok |-> TRUE, h |-> h3]

\* faulty variant: the threshold itself takes the sampled branch
UseSmallBranch_Strict(size) == size < LARGE_FILE_THRESHOLD

UseSmallBranch(size) == size <= LARGE_FILE_THRESHOLD

hash_file(f) ==
    IF f.io = "meta_err" \/ f.io = "open_err" THEN HashErr
    ELSE LET r == IF UseSmallBranch(f.seen) THEN SmallBranch(f) ELSE LargeBranch(f)
         IN IF r.ok THEN HashOk(r.h) ELSE HashErr

-----------------------------------------------------------------------------
(* The files hash_file is tried on: zero bytes with a few bytes set to 1 *)

MaxMarks == 1

HashSizes == {0, 2000, LARGE_FILE_THRESHOLD, LARGE_FILE_THRESHOLD + 1,
              2 * LARGE_FILE_THRESHOLD}

MarkOffsets(size) ==
    {0, SAMPLE_SIZE - 1, SAMPLE_SIZE, size - SAMPLE_SIZE - 1, size - SAMPLE_SIZE,
     size - 1} \cap (0 .. size - 1)

SetMin(S) == CHOOSE x \in S : \A y \in S : x <= y

RECURSIVE Build(_, _, _)
Build(from, size, marks) ==
    IF marks = {} THEN <<[b |-> 0, n |-> size - from]>>
    ELSE LET m == SetMin(marks) IN
         <<[b |-> 0, n |-> m - from], [b |-> 1, n |-> 1]>>
             \o Build(m + 1, size, marks \ {m})

MarkSets(size) == {m \in SUBSET MarkOffsets(size) : Cardinality(m) <= MaxMarks}

Contents == UNION {{Norm(Build(0, size, m)) : m \in MarkSets(size)} : size \in HashSizes}

NotRun == [ok |-> FALSE, hash |-> <<"not run">>]


\* the pipeline's variables while only hash_file is exercised
ScanIdle ==
    /\ tree = <<>> /\ disk = {} /\ interactive = FALSE /\ pc = "idle"
    /\ stack = <<>> /\ cur = -1 /\ rest = {} /\ paths = <<>>
    /\ pblen = 0 /\ pbpos = 0 /\ todo = {} /\ hashOf = <<>>
    /\ partials = EmptyBag /\ duplicates = <<>> /\ duplicate_sets = <<>>
    /\ reported = 0 /\ selected = {} /\ nodup = FALSE /\ exit = "running"

HashInit ==
    /\ fileA \in {FileView(d, io) : d \in Contents, io \in IoModes}
    /\ fileB \in {FileView(d, io) : d \in Contents, io \in IoModes}
    /\ resA = NotRun
    /\ resB = NotRun
    /\ ScanIdle

HashA ==
    /\ resA = NotRun
    /\ resA' = hash_file(fileA)
    /\ UNCHANGED <<fileA, fileB, resB, pvars>>

HashB ==
    /\ resB = NotRun
    /\ resB' = hash_file(fileB)
    /\ UNCHANGED <<fileA, fileB, resA, pvars>>

HashNext == HashA \/ HashB

HashSpec == HashInit /\ [][HashNext]_vars

-----------------------------------------------------------------------------
(* The directory tree scan_directory walks *)

MaxEntries == 3
MaxPartials == 2

Root == 0
NoDir == -1

\* file contents around the walker's size filter: 1024 bytes, and two
\* different contents of 1025 bytes
ScanContents ==
    {Norm(Build(0, MIN_SIZE, {})), Norm(Build(0, MIN_SIZE + 1, {})),
     Norm(Build(0, MIN_SIZE + 1, {0}))}

\* what an entry is: a directory, a regular file with its bytes, or something
\* for which both is_dir() and is_file() are false
EntryKinds ==
    {[kind |-> "dir", data |-> <<>>], [kind |-> "other", data |-> <<>>]}
        \cup {[kind |-> "file", data |-> d] : d \in ScanContents}

\* the trees of n entries below the root; entry e stands for its path, which no
\* other entry has
Trees(n) ==
    {t \in [1 .. n -> {[parent |-> q, kind |-> k.kind, data |-> k.data] :
                          q \in 0 .. n - 1, k \in EntryKinds}] :
        \A e \in 1 .. n :
            /\ t[e].parent < e
            /\ t[e].parent = Root \/ t[t[e].parent].kind = "dir"}

Children(d) == {e \in DOMAIN tree : tree[e].parent = d}
IsDir(e) == tree[e].kind = "dir"
IsFile(e) == tree[e].kind = "file"
MetaLen(e) == Size(tree[e].data)

wvars == <<stack, cur, rest, paths>>
avars == <<pblen, pbpos, todo, hashOf, partials, duplicates>>
mvars == <<duplicate_sets, reported, selected, nodup>>
fsvars == <<tree, disk, interactive>>

HashIdle ==
    /\ fileA = FileView(<<>>, "ok") /\ fileB = FileView(<<>>, "ok")
    /\ resA = NotRun /\ resB = NotRun

Init ==
    /\ HashIdle
    /\ \E n \in 0 .. MaxEntries : tree \in Trees(n)
    /\ disk = DOMAIN tree
    /\ interactive \in BOOLEAN
    /\ pc = "walk"
    /\ stack = <<Root>>
    /\ cur = NoDir /\ rest = {} /\ paths = <<>>
    /\ pblen = 0 /\ pbpos = 0 /\ todo = {} /\ hashOf = <<>>
    /\ partials = EmptyBag /\ duplicates = <<>>
    /\ duplicate_sets = <<>> /\ reported = 0 /\ selected = {} /\ nodup = FALSE
    /\ exit = "running"

\* an error leaves scan_directory and main through the ? operators
Fail == pc' = "exit" /\ exit' = "err"

-----------------------------------------------------------------------------
(* scan_directory: the walk, lines 106-122 *)

\* faulty variant: a file of exactly 1024 bytes is kept
Keep_AtLeast(size) == size >= MIN_SIZE

\* line 117
Keep(size) == size > MIN_SIZE

\* faulty variant: an unreadable directory is skipped and the walk goes on
DirUnreadable_Skip ==
    /\ stack' = SubSeq(stack, 1, Len(stack) - 1)
    /\ UNCHANGED <<cur, rest, paths, pc, exit>>

\* fs::read_dir(current_dir)? on an error: scan_directory returns it
DirUnreadable == Fail /\ UNCHANGED wvars

\* stack.pop() and fs::read_dir(current_dir)?
PopDir ==
    /\ pc = "walk" /\ cur = NoDir /\ stack # <<>>
    /\ LET current_dir == stack[Len(stack)] IN
       \E read_ok \in BOOLEAN :
          IF read_ok
          THEN /\ stack' = SubSeq(stack, 1, Len(stack) - 1)
               /\ rest' = Children(current_dir)
               /\ cur' = IF Children(current_dir) = {} THEN NoDir ELSE current_dir
               /\ UNCHANGED <<paths, pc, exit>>
          ELSE DirUnreadable
    /\ UNCHANGED <<hvars, fsvars, avars, mvars>>

\* faulty variant: a subdirectory is not pushed
PushedDirs_None(e) == <<>>

\* the entries a visit of e adds to the stack and to paths
PushedDirs(e) == IF IsDir(e) THEN <<e>> ELSE <<>>
PushedPaths(e) ==
    IF ~IsDir(e) /\ IsFile(e) /\ Keep(MetaLen(e)) THEN <<e>> ELSE <<>>

\* one pass of the for loop: the iterator yields e, in any order; entry? or
\* fs::metadata(&path)? may fail
VisitEntry(e) ==
    /\ pc = "walk" /\ cur # NoDir /\ e \in rest
    /\ \E io_ok \in BOOLEAN :
          IF io_ok
          THEN /\ rest' = rest \ {e}
               /\ cur' = IF rest \ {e} = {} THEN NoDir ELSE cur
               /\ stack' = stack \o PushedDirs(e)
               /\ paths' = paths \o PushedPaths(e)
               /\ UNCHANGED <<pc, exit>>
          ELSE Fail /\ UNCHANGED wvars
    /\ UNCHANGED <<hvars, fsvars, avars, mvars>>

\* the stack is empty: ProgressBar::new(paths.len()), and par_iter starts
WalkDone ==
    /\ pc = "walk" /\ cur = NoDir /\ stack = <<>>
    /\ pc' = "hash"
    /\ pblen' = Len(paths) /\ pbpos' = 0
    /\ todo' = 1 .. Len(paths)
    /\ UNCHANGED <<hvars, fsvars, wvars, hashOf, partials, duplicates, mvars, exit>>

-----------------------------------------------------------------------------
(* scan_directory: filter_map, fold and reduce, lines 132-162 *)

\* a HashMap<Vec<u8>, Vec<PathBuf>> is a function from its keys to sequences
EmptyMap == <<>>
Get(map, h) == IF h \in DOMAIN map THEN map[h] ELSE <<>>

\* faulty variant: the entry is replaced, not pushed to
FoldOp_Insert(acc, hash, path) ==
    [h \in DOMAIN acc \cup {hash} |-> IF h = hash THEN <<path>> ELSE acc[h]]

\* acc.entry(hash).or_insert_with(Vec::new).push(path)
FoldOp(acc, hash, path) ==
    [h \in DOMAIN acc \cup {hash} |->
        IF h = hash THEN Get(acc, h) \o <<path>> ELSE acc[h]]

\* faulty variant: the right map's entry replaces the left's
ReduceOp_Insert(acc, map) ==
    [h \in DOMAIN acc \cup DOMAIN map |->
        IF h \in DOMAIN map THEN map[h] ELSE acc[h]]

\* for (hash, paths) in map { acc.entry(hash).or_insert_with(Vec::new).extend(paths) }
ReduceOp(acc, map) ==
    [h \in DOMAIN acc \cup DOMAIN map |-> Get(acc, h) \o Get(map, h)]

\* what a task's hash_file call may meet at the file of paths[i]
ScanIo == {"ok", "meta_err", "open_err", "read_err"}

\* the partial maps in flight
Maps == BagToSet(partials)
One(map) == SetToBag({map})

\* the identity closures of fold and reduce: a new empty HashMap
NewPartial ==
    /\ pc = "hash" /\ BagCardinality(partials) < MaxPartials
    /\ partials' = partials (+) One(EmptyMap)
    /\ UNCHANGED <<hvars, fsvars, wvars, pblen, pbpos, todo, hashOf, duplicates,
                   mvars, pc, exit>>

\* faulty variant: a failed hash_file is not counted
Progress_OkOnly(r) == IF r.ok THEN 1 ELSE 0

\* pb.inc(1) in both arms of the match
Progress(r) == 1

\* the filter_map closure on paths[i] and, for Some, the fold closure on the
\* accumulator acc of the batch the item is in
FoldStep(i, acc) ==
    /\ pc = "hash" /\ i \in todo /\ acc \in Maps
    /\ \E io \in ScanIo :
          LET r == hash_file(FileView(tree[paths[i]].data, io)) IN
          /\ hashOf' = [j \in DOMAIN hashOf \cup {i} |-> IF j = i THEN r ELSE hashOf[j]]
          /\ pbpos' = pbpos + Progress(r)
          /\ partials' = IF r.ok
                         THEN (partials (-) One(acc)) (+) One(FoldOp(acc, r.hash, paths[i]))
                         ELSE partials
    /\ todo' = todo \ {i}
    /\ UNCHANGED <<hvars, fsvars, wvars, pblen, duplicates, mvars, pc, exit>>

\* the reduce closure on two of the partial maps
ReduceStep(acc, map) ==
    /\ pc = "hash"
    /\ acc \in Maps /\ map \in Maps
    /\ acc = map => CopiesIn(acc, partials) >= 2
    /\ partials' = ((partials (-) One(acc)) (-) One(map)) (+) One(ReduceOp(acc, map))
    /\ UNCHANGED <<hvars, fsvars, wvars, pblen, pbpos, todo, hashOf, duplicates,
                   mvars, pc, exit>>

\* every item is consumed and one map is left: pb.finish, Ok(duplicates)
ScanDone ==
    /\ pc = "hash" /\ todo = {} /\ BagCardinality(partials) = 1
    /\ duplicates' = Only(Maps)
    /\ pc' = "collect"
    /\ UNCHANGED <<hvars, fsvars, wvars, pblen, pbpos, todo, hashOf, partials,
                   mvars, exit>>

-----------------------------------------------------------------------------
(* main, lines 177-211 *)

\* faulty variant: a group needs three paths
IsDuplicate_Three(ps) == Len(ps) > 2

\* line 180
IsDuplicate(ps) == Len(ps) > 1

\* the orders in which into_iter may yield the entries of S
Orders(S) ==
    {s \in [1 .. Cardinality(S) -> S] :
        \A i, j \in 1 .. Cardinality(S) : i # j => s[i] # s[j]}

Filtered(map) == {<<h, map[h]>> : h \in {k \in DOMAIN map : IsDuplicate(map[k])}}

\* lines 178-186
Collect ==
    /\ pc = "collect"
    /\ duplicate_sets' \in Orders(Filtered(duplicates))
    /\ IF Filtered(duplicates) = {}
       THEN nodup' = TRUE /\ pc' = "exit" /\ exit' = "ok"
       ELSE nodup' = FALSE /\ pc' = "report" /\ exit' = exit
    /\ UNCHANGED <<hvars, fsvars, wvars, avars, reported, selected>>

\* the indices of S in increasing order, as MultiSelect returns them
RECURSIVE Ascending(_)
Ascending(S) ==
    IF S = {} THEN <<>> ELSE <<SetMin(S)>> \o Ascending(S \ {SetMin(S)})

\* fs::remove_file on each of ps in turn; the failAt-th call fails (0: none
\* is made to), as does one on a path that is not on disk; the ? stops there
RECURSIVE RemoveFiles(_, _, _)
RemoveFiles(d, ps, failAt) ==
    IF Len(ps) = 0 THEN [disk |-> d, ok |-> TRUE]
    ELSE IF failAt = 1 \/ ps[1] \notin d THEN [disk |-> d, ok |-> FALSE]
    ELSE RemoveFiles(d \ {ps[1]}, Tail(ps), failAt - 1)

\* faulty variant: the selections count paths from the front of the group
ToDelete_Front(group, selections) ==
    [x \in 1 .. Cardinality(selections) |-> group[x]]

\* lines 201-202: the paths at the selected indices, in the order of selections
ToDelete(group, selections) ==
    [x \in 1 .. Cardinality(selections) |-> group[Ascending(selections)[x]]]

\* faulty variant: the deletions are made without the flag
Deletes_Always(flag) == TRUE

\* line 194
Deletes(flag) == flag

\* one pass of the loop of lines 188-207 over the next group
ReportGroup ==
    /\ pc = "report" /\ reported < Len(duplicate_sets)
    /\ reported' = reported + 1
    /\ LET group == duplicate_sets[reported + 1][2] IN
       IF ~Deletes(interactive)
       THEN UNCHANGED <<disk, selected, pc, exit>>
       ELSE \E prompt_ok \in BOOLEAN :
               IF ~prompt_ok
               THEN Fail /\ UNCHANGED <<disk, selected>>
               ELSE \E selections \in SUBSET (1 .. Len(group)) :
                    \E failAt \in 0 .. Cardinality(selections) :
                       LET r == RemoveFiles(disk, ToDelete(group, selections), failAt)
                       IN /\ selected' = selected \cup {group[x] : x \in selections}
                          /\ disk' = r.disk
                          /\ IF r.ok THEN UNCHANGED <<pc, exit>> ELSE Fail
    /\ UNCHANGED <<hvars, tree, interactive, wvars, avars, duplicate_sets, nodup>>

\* line 211
MainDone ==
    /\ pc = "report" /\ reported = Len(duplicate_sets)
    /\ pc' = "exit" /\ exit' = "ok"
    /\ UNCHANGED <<hvars, fsvars, wvars, avars, mvars>>

-----------------------------------------------------------------------------

Walk == PopDir \/ (\E e \in DOMAIN tree : VisitEntry(e)) \/ WalkDone

Aggregate ==
    \/ NewPartial
    \/ \E i \in DOMAIN paths, acc \in Maps : FoldStep(i, acc)
    \/ \E acc, map \in Maps : ReduceStep(acc, map)
    \/ ScanDone

Report == Collect \/ ReportGroup \/ MainDone

Next == Walk \/ Aggregate \/ Report

Spec == Init /\ [][Next]_vars

\* the walk alone; the loop keeps running while it has a step to take
WalkSpec == Init /\ [][Walk]_vars /\ WF_vars(Walk)

-----------------------------------------------------------------------------
(* What the claims speak of *)

Range(seq) == {seq[x] : x \in DOMAIN seq}
Files == {e \in DOMAIN tree : IsFile(e)}

\* the walk returned an error: main ends before anything is reported
WalkFailed == pc = "exit" /\ exit = "err" /\ reported = 0

\* scan_directory returned Ok(duplicates)
ScanReturned == pc \in {"collect", "report"} \/ (pc = "exit" /\ (nodup \/ reported > 0))

\* main built duplicate_sets
Collected == pc = "report" \/ (pc = "exit" /\ (nodup \/ reported > 0))

\* the indices of paths whose hash_file call returned Ok
Hashed == {i \in DOMAIN hashOf : hashOf[i].ok}

\* how often path p occurs in the groups of map
Occurrences(map, p) ==
    Cardinality({hx \in UNION {{<<h, x>> : x \in DOMAIN map[h]} : h \in DOMAIN map} :
                    map[hx[1]][hx[2]] = p})

InGroups(map) == UNION {Range(map[h]) : h \in DOMAIN map}

-----------------------------------------------------------------------------
(* C1 *)

\* C1: when scan_directory returns Ok, for every number of partial maps, every
\* assignment of the paths to them and every interleaving of fold and reduce
\* steps, each path whose hash_file call succeeded occurs exactly once in the
\* returned map, in the group of its own fingerprint; and every path in a
\* group is a discovered path whose call succeeded with that group's key.
C1_EachPathOnce ==
    ScanReturned =>
        /\ \A i \in Hashed :
              /\ Occurrences(duplicates, paths[i]) = 1
              /\ hashOf[i].hash \in DOMAIN duplicates
              /\ paths[i] \in Range(duplicates[hashOf[i].hash])
        /\ \A h \in DOMAIN duplicates : \A x \in DOMAIN duplicates[h] :
              \E i \in Hashed : paths[i] = duplicates[h][x] /\ hashOf[i].hash = h

C1_Witness ==
    /\ ScanReturned
    /\ Cardinality(DOMAIN duplicates) >= 2
    /\ \E h \in DOMAIN duplicates : Len(duplicates[h]) >= 2

-----------------------------------------------------------------------------
(* C2 *)

\* the map from fingerprint to path set that the (fingerprint, path) pairs
\* produced so far determine
PairsMap ==
    [h \in {hashOf[i].hash : i \in Hashed} |->
        {paths[i] : i \in {j \in Hashed : hashOf[j].hash = h}}]

\* the partial maps taken together, as a map from fingerprint to path set
PartialsAsSets ==
    [h \in UNION {DOMAIN map : map \in Maps} |->
        UNION {Range(Get(map, h)) : map \in Maps}]

AsSets(map) == [h \in DOMAIN map |-> Range(map[h])]

\* C2: whatever the split of the pairs over partial maps and whatever the
\* order and grouping of the merges, the partial maps together hold, and the
\* returned map is, the one map from fingerprint to path set that the pairs
\* determine.
C2_OrderIndependent ==
    /\ pc = "hash" => PartialsAsSets = PairsMap
    /\ ScanReturned => AsSets(duplicates) = PairsMap

C2_Witness ==
    /\ pc = "hash"
    /\ \E acc, map \in Maps :
          /\ DOMAIN acc \cap DOMAIN map # {}
          /\ DOMAIN acc # DOMAIN map

-----------------------------------------------------------------------------
(* C3 *)

Reported == UNION {Range(duplicate_sets[g][2]) : g \in DOMAIN duplicate_sets}

EverListed ==
    Range(paths) \cup UNION {InGroups(map) : map \in Maps}
        \cup InGroups(duplicates) \cup Reported

-----------------------------------------------------------------------------
(* C4 *)

\* C4: a failed hash_file call does not end the scan: while tasks run main has
\* not returned, every call made, failed or not, has moved the progress bar by
\* one, and when scan_directory returns every path has had its call, the bar
\* is at its length, the failed paths are in no group and the others are in
\* one.
C4_FailureIsolated ==
    /\ pc = "hash" =>
          /\ exit = "running"
          /\ pbpos = Cardinality(DOMAIN hashOf)
          /\ DOMAIN hashOf = DOMAIN paths \ todo
    /\ ScanReturned =>
          /\ DOMAIN hashOf = DOMAIN paths
          /\ pbpos = Len(paths) /\ pblen = Len(paths)
          /\ \A i \in DOMAIN hashOf :
                IF hashOf[i].ok
                THEN paths[i] \in InGroups(duplicates)
                ELSE paths[i] \notin InGroups(duplicates)

C4_Witness ==
    /\ ScanReturned
    /\ \E i \in DOMAIN hashOf : ~hashOf[i].ok
    /\ \E i \in DOMAIN hashOf : hashOf[i].ok
    /\ \E h \in DOMAIN duplicates : Len(duplicates[h]) >= 2

-----------------------------------------------------------------------------
(* C5 *)

Count(seq, v) == Cardinality({x \in DOMAIN seq : seq[x] = v})

\* C5: the walk loop ends, and when it ends without a failed read, paths holds
\* every regular file of more than 1024 bytes exactly once and nothing else,
\* whatever the order of the entries.
C5_WalkEnds ==
    /\ <>(pc # "walk")
    /\ [](pc = "hash" =>
            \A e \in DOMAIN tree :
                Count(paths, e) = IF IsFile(e) /\ MetaLen(e) > 1024 THEN 1 ELSE 0)

\* a kept file two directories below the root
C5_Witness ==
    /\ pc = "hash"
    /\ \E e \in Range(paths) :
          tree[e].parent # Root /\ tree[tree[e].parent].parent # Root

-----------------------------------------------------------------------------
(* C6 *)

\* C6: the walk ends before any file is fingerprinted; when a read of the walk
\* fails main returns the error, nothing has been fingerprinted, reported or
\* deleted; and the scan goes on past the walk only with the path list of the
\* whole tree, never with a partial one.
C6_WalkErrorFatal ==
    /\ pc = "walk" => hashOf = <<>> /\ partials = EmptyBag /\ pbpos = 0
    /\ WalkFailed =>
          /\ exit = "err"
          /\ hashOf = <<>> /\ partials = EmptyBag /\ pbpos = 0
          /\ duplicates = <<>> /\ duplicate_sets = <<>> /\ ~nodup
          /\ disk = DOMAIN tree
    /\ (pc # "walk" /\ ~WalkFailed) =>
          \A e \in Files : Keep(MetaLen(e)) => e \in Range(paths)

C6_Witness ==
    /\ WalkFailed
    /\ Len(paths) >= 1
    /\ stack # <<>>

-----------------------------------------------------------------------------
(* C7 *)

\* the paths of the groups the report loop has reached
ReachedGroups == UNION {Range(duplicate_sets[g][2]) : g \in 1 .. reported}

\* C7 as stated: in interactive mode every selected path is deleted and every
\* other path is left alone.
C7_SelectedAllDeleted ==
    interactive =>
        /\ selected \cap disk = {}
        /\ DOMAIN tree \ disk \subseteq selected

\* C7 as amended: only selected paths of reported groups are ever deleted, and
\* when main returns Ok every selected path is deleted; a failed remove_file
\* makes main return the error with the paths selected after it still on disk.
C7_SelectedDeletedUnlessError ==
    /\ DOMAIN tree \ disk \subseteq selected
    /\ selected \subseteq ReachedGroups
    /\ exit # "err" => selected \cap disk = {}
    /\ selected # {} => interactive

C7_Witness ==
    /\ interactive /\ exit = "ok"
    /\ selected # {}
    /\ ReachedGroups \cap disk # {}
    /\ DOMAIN tree \ disk = selected

-----------------------------------------------------------------------------
(* C8 *)

\* C8: duplicate_sets holds exactly the entries of the returned map that have
\* two or more paths, each once; "No duplicates found." is printed, and main
\* returns Ok at once, exactly when there is none; and when main returns Ok
\* otherwise, every one of them has been reported.
C8_ReportedGroups ==
    /\ Collected =>
          /\ Range(duplicate_sets) =
                {<<h, duplicates[h]>> : h \in {k \in DOMAIN duplicates : Len(duplicates[k]) >= 2}}
          /\ \A g1, g2 \in DOMAIN duplicate_sets :
                duplicate_sets[g1] = duplicate_sets[g2] => g1 = g2
          /\ nodup <=> \A h \in DOMAIN duplicates : Len(duplicates[h]) < 2
          /\ nodup => exit = "ok" /\ reported = 0
          /\ (exit = "ok" /\ ~nodup) => reported = Len(duplicate_sets)
    /\ ~Collected => ~nodup /\ duplicate_sets = <<>>

C8_Witness ==
    /\ pc = "exit" /\ exit = "ok"
    /\ reported >= 1
    /\ \E h \in DOMAIN duplicates : Len(duplicates[h]) = 1

-----------------------------------------------------------------------------
(* C9 *)

\* C9: without the interactive flag nothing on disk changes: every entry
\* there at the start is there at every later point, and none is selected for
\* deletion.
C9_NoMutation ==
    ~interactive => disk = DOMAIN tree /\ selected = {}

C9_Witness ==
    /\ ~interactive
    /\ pc = "exit" /\ exit = "ok"
    /\ reported >= 1

-----------------------------------------------------------------------------
(* C10 *)

IsLarge(f) == f.seen > LARGE_FILE_THRESHOLD
HeadSample(f) == Slice(f.data, 0, SAMPLE_SIZE)
TailSample(f) == Slice(f.data, Size(f.data) - SAMPLE_SIZE, SAMPLE_SIZE)
SameSample(f, g) ==
    /\ HeadSample(f) = HeadSample(g)
    /\ TailSample(f) = TailSample(g)
    /\ f.seen = g.seen

\* the value a little-endian byte sequence encodes
RECURSIVE LeValue(_)
LeValue(bytes) ==
    IF Len(bytes) = 0 THEN 0 ELSE bytes[1].b + 256 * LeValue(Tail(bytes))

\* head sample, then tail sample, then the 8 little-endian bytes of the size
SampleStream(f) ==
    Norm(HeadSample(f) \o TailSample(f) \o ToLeBytes(f.seen, U64_BYTES))

BothHashed == resA # NotRun /\ resB # NotRun /\ fileA.io = "ok" /\ fileB.io = "ok"

\* C10: two files above LARGE_FILE_THRESHOLD with the same first 64 KiB, the
\* same last 64 KiB and the same size get equal fingerprints whatever lies
\* between; the hasher is fed the head sample, the tail sample and the 8
\* little-endian bytes of the size, in that order, and the tail seek never
\* lands before the start of the file; files at or below the threshold are
\* hashed over their whole content, so there equal fingerprints mean equal
\* content.
C10_SampledFingerprint ==
    BothHashed =>
        /\ resA.ok /\ resB.ok
        /\ (IsLarge(fileA) /\ IsLarge(fileB) /\ SameSample(fileA, fileB))
               => resA.hash = resB.hash
        /\ IsLarge(fileA) =>
               /\ resA.hash = Digest(SampleStream(fileA))
               /\ Size(fileA.data) + SeekOffset(fileA.seen) >= 0
               /\ Len(ToLeBytes(fileA.seen, U64_BYTES)) = 8
               /\ LeValue(ToLeBytes(fileA.seen, U64_BYTES)) = fileA.seen
        /\ (~IsLarge(fileA) /\ ~IsLarge(fileB))
               => (resA.hash = resB.hash <=> fileA.data = fileB.data)

C10_Witness ==
    /\ BothHashed
    /\ IsLarge(fileA) /\ IsLarge(fileB) /\ SameSample(fileA, fileB)
    /\ fileA.data # fileB.data
    /\ resA.ok /\ resA.hash = resB.hash

====
